---- MODULE Spec2Model ----
(***************************************************************************)
(* Model of the CoinCap price-feed client of crypto-rate-utils             *)
(* (src/src/api/coincap.ts): the asset registry, the REST polling refresh, *)
(* the push socket with its resubscribe/reconnect cycle, and the public    *)
(* getPrice/disconnect surface.                                            *)
(*                                                                         *)
(* The REST transport, the socket transport and the caller are the         *)
(* environment: they choose snapshots, socket events, push payloads and    *)
(* getPrice arguments from small sets.  Time is in milliseconds.  An       *)
(* exception thrown by a handler is recorded in `last`; the model lets the *)
(* process go on afterwards (a superset of the behaviours of a process     *)
(* that dies on it).                                                       *)
(*                                                                         *)
(* Spec is the whole client.  SpecRegistry, SpecSocket, SpecSession,       *)
(* SpecReconnect and SpecShutdown are the same client under narrower       *)
(* environments (each is described where it is defined), which keeps the   *)
(* registry properties and the socket properties each within reach of      *)
(* exhaustive checking.  SpecValidator applies isValidPriceResponse alone. *)
(***************************************************************************)
EXTENDS Integers, Sequences, FiniteSets, TLC

VARIABLES
    assets,        \* `assets`: the registry, an array of CoinCapAsset
    socket,        \* `socket`: index into sockets of the current WebSocket, 0 = undefined
    sockets,       \* every WebSocket constructed so far, in order of construction
    timers,        \* pending setTimeout(resubscribe, 5000) calls: their due times
    refresh,       \* TRUE while the setInterval(fetchAssets, ...) is active
    nextPoll,      \* time at which the polling interval fires next
    fetching,      \* number of REST requests in flight
    now,           \* Date.now()
    disconnected,  \* history: disconnect() has been called
    last           \* history: what the last handler did and returned

vars == <<assets, socket, sockets, timers, refresh, nextPoll, fetching, now,
          disconnected, last>>

(***************************************************************************)
(* Program constants                                                       *)
(***************************************************************************)
POLLING_REFRESH_INTERVAL == 20000
MAX_PRICE_AGE == 30000
RECONNECT_DELAY == 5000

(***************************************************************************)
(* Bounds of the model                                                     *)
(***************************************************************************)
StartNow == 5000
MaxNow == 36000
MaxSnapshot == 2
MaxSockets == 2
MaxTimers == 2
MaxFetch == 1
MaxKeys == 2

\* Steps by which the local clock advances between two handlers.
TickSteps == {20000, 30000, 31000}
\* Provider timestamp minus local time at the moment a REST response arrives.
SkewSet == {-5000, 0, 5000}

(***************************************************************************)
(* bignumber.js values: sign s (1, -1, or 0 for the null sign of NaN) and  *)
(* coefficient c (a one-element array, or <<>> for the null coefficient of *)
(* NaN and Infinity).                                                      *)
(***************************************************************************)
BigNumber(str) ==
    CASE str = "1"        -> [s |-> 1, c |-> <<1>>]
      [] str = "50000"    -> [s |-> 1, c |-> <<50000>>]
      [] str = "51000"    -> [s |-> 1, c |-> <<51000>>]
      [] str = "0"        -> [s |-> 1, c |-> <<0>>]
      [] str = "-1"       -> [s |-> -1, c |-> <<1>>]
      [] str = "Infinity" -> [s |-> 1, c |-> <<>>]
      [] OTHER            -> [s |-> 0, c |-> <<>>]

isPositive(n) == n.s > 0
isFinite(n) == n.c # <<>>

NoPrice == [s |-> 0, c |-> <<>>]

(***************************************************************************)
(* Inputs                                                                  *)
(***************************************************************************)
\* (id, symbol) pairs the REST endpoint may list; two ids share the symbol BTC.
Listings == { <<"bitcoin", "BTC">>, <<"ethereum", "ETH">>, <<"bitcoin-bep2", "BTC">> }
RestPrices == {"50000"}

SnapshotEntries == { [id |-> l[1], symbol |-> l[2], priceUsd |-> p] :
                       l \in Listings, p \in RestPrices }

RECURSIVE SeqsUpTo(_, _)
SeqsUpTo(S, n) ==
    IF n = 0 THEN { <<>> }
    ELSE LET shorter == SeqsUpTo(S, n - 1)
         IN  shorter \cup { Append(q, x) : q \in { r \in shorter : Len(r) = n - 1 }, x \in S }

\* data.data of a REST response: no (id, symbol) pair is listed twice.
SnapshotData == { d \in SeqsUpTo(SnapshotEntries, MaxSnapshot) :
                    \A i, j \in 1..Len(d) : i # j => d[i].id # d[j].id }

\* Arguments of getPrice.
QuerySymbols == {"USD", "BTC", "ETH", "bitcoin", "DOGE"}

\* JSON values of a push payload.
JsonString(str) == [t |-> "string", s |-> str]
JsonNumber(str) == [t |-> "number", s |-> str]
PushValues == { JsonString("51000"), JsonString("-1") }
PushKeys == {"bitcoin", "unknown-id"}

\* A raw message: text that is no JSON, or the JSON text of null, of a string,
\* of the empty array, or of an object with at most MaxKeys keys.
Json(type, entries) == [type |-> type, entries |-> entries]
JsonObjects == { Json("object", [k \in K |-> f[k]]) :
                   K \in { X \in SUBSET PushKeys : Cardinality(X) <= MaxKeys },
                   f \in [PushKeys -> PushValues] }
Messages == { Json("text", <<>>), Json("null", <<>>), Json("string", <<>>),
              Json("array", <<>>) } \cup JsonObjects

\* Decoded payloads handed to isValidPriceResponse on its own: undefined (the
\* result of a failed parse), null, a string, a number, the empty array, and
\* objects with at most MaxKeys keys whose values are strings that read as a
\* positive number, zero, a negative number, no number, Infinity, or are a
\* JSON number.
ValidatorKeys == {"bitcoin", "ethereum", "unknown-id"}
ValidatorValues == { JsonString("51000"), JsonString("0"), JsonString("-1"),
                     JsonString("abc"), JsonString("Infinity"), JsonNumber("51000") }
ValidatorObjects == { Json("object", [k \in K |-> f[k]]) :
                        K \in { X \in SUBSET ValidatorKeys : Cardinality(X) <= MaxKeys },
                        f \in [ValidatorKeys -> ValidatorValues] }
DecodedPayloads == { Json("undefined", <<>>), Json("null", <<>>), Json("string", <<>>),
                     Json("number", <<>>), Json("array", <<>>) } \cup ValidatorObjects

(***************************************************************************)
(* Helpers                                                                 *)
(***************************************************************************)
\* Array.prototype.find: index of the first element passing Test, 0 for undefined.
FindIndex(arr, Test(_)) ==
    IF \E i \in 1..Len(arr) : Test(arr[i])
    THEN CHOOSE i \in 1..Len(arr) : Test(arr[i]) /\ \A j \in 1..(i - 1) : ~Test(arr[j])
    ELSE 0

Min(a, b) == IF a <= b THEN a ELSE b

(***************************************************************************)
(* Schema and data validation                                              *)
(***************************************************************************)
\* parseJson: the decoded value, or undefined when JSON.parse throws.
parseJson(message) ==
    IF message.type = "text" THEN Json("undefined", <<>>) ELSE message

\* typeof o === 'object' holds of null, of arrays and of plain objects.
TypeofObject(o) == o.type \in {"null", "array", "object"}

\* isValidPriceResponse: "true", "false", or "TypeError" when Object.keys(null) throws.
isValidPriceResponse(o, arr) ==
    IF ~TypeofObject(o) THEN "false"
    ELSE IF o.type = "null" THEN "TypeError"
    ELSE IF /\ \A id \in DOMAIN o.entries : \E i \in 1..Len(arr) : arr[i].id = id
            /\ \A k \in DOMAIN o.entries :
                 LET rate == o.entries[k]
                 IN  /\ rate.t = "string"
                     /\ isPositive(BigNumber(rate.s))
                     /\ isFinite(BigNumber(rate.s))
    THEN "true"
    ELSE "false"

(***************************************************************************)
(* Getters and reducers of connectCoinCap                                  *)
(***************************************************************************)
\* Variant of getAsset whose second disjunct lost its comparison
\* (asset.id === symbolOrId || asset.symbol): any asset with a symbol matches.
getAssetTruthySymbol(arr, symbolOrId) ==
    LET Match(asset) == asset.id = symbolOrId \/ asset.symbol # ""
    IN  FindIndex(arr, Match)

\* getAsset: index of the first asset whose id or symbol is symbolOrId, 0 for undefined.
getAsset(arr, symbolOrId) ==
    LET Match(asset) == asset.id = symbolOrId \/ asset.symbol = symbolOrId
    IN  FindIndex(arr, Match)

subscribeTo(arr, symbol) ==
    [i \in 1..Len(arr) |->
        IF arr[i].symbol = symbol THEN [arr[i] EXCEPT !.subscribe = TRUE] ELSE arr[i]]

\* data[asset.id] && ...: the entry exists and is a truthy value.
Truthy(data, id) ==
    /\ id \in DOMAIN data.entries
    /\ ~(data.entries[id].t = "string" /\ data.entries[id].s = "")

\* Variant of updatePrices that stamps every asset with the receipt time.
updatePricesStampAll(arr, data, t) ==
    [i \in 1..Len(arr) |->
        IF Truthy(data, arr[i].id)
        THEN [arr[i] EXCEPT !.price = BigNumber(data.entries[arr[i].id].s),
                            !.updated = t]
        ELSE [arr[i] EXCEPT !.updated = t]]

updatePrices(arr, data, t) ==
    [i \in 1..Len(arr) |->
        IF Truthy(data, arr[i].id)
        THEN [arr[i] EXCEPT !.price = BigNumber(data.entries[arr[i].id].s),
                            !.updated = t]
        ELSE arr[i]]

\* Variant of updateAssets without the freshness guard: every listed asset is replaced.
updateAssetsAlwaysReplace(arr, data, t) ==
    [i \in 1..Len(data.data) |->
        LET entry == data.data[i]
            SameSymbol(a) == a.symbol = entry.symbol
            old == FindIndex(arr, SameSymbol)
        IN  [id        |-> entry.id,
             symbol    |-> entry.symbol,
             price     |-> BigNumber(entry.priceUsd),
             updated   |-> Min(t, data.timestamp),
             subscribe |-> old # 0 /\ arr[old].subscribe]]

\* Variant of updateAssets that resets the subscribe flag of a replaced entry.
updateAssetsDropsSubscribe(arr, data, t) ==
    [i \in 1..Len(data.data) |->
        LET entry == data.data[i]
            SameSymbol(a) == a.symbol = entry.symbol
            old == FindIndex(arr, SameSymbol)
        IN  IF old # 0 /\ arr[old].updated > data.timestamp
            THEN arr[old]
            ELSE [id        |-> entry.id,
                  symbol    |-> entry.symbol,
                  price     |-> BigNumber(entry.priceUsd),
                  updated   |-> Min(t, data.timestamp),
                  subscribe |-> FALSE]]

\* Variant of updateAssets that trusts the provider's clock: no Math.min.
updateAssetsProviderTime(arr, data, t) ==
    [i \in 1..Len(data.data) |->
        LET entry == data.data[i]
            SameSymbol(a) == a.symbol = entry.symbol
            old == FindIndex(arr, SameSymbol)
        IN  IF old # 0 /\ arr[old].updated > data.timestamp
            THEN arr[old]
            ELSE [id        |-> entry.id,
                  symbol    |-> entry.symbol,
                  price     |-> BigNumber(entry.priceUsd),
                  updated   |-> data.timestamp,
                  subscribe |-> old # 0 /\ arr[old].subscribe]]

updateAssets(arr, data, t) ==
    [i \in 1..Len(data.data) |->
        LET entry == data.data[i]
            SameSymbol(a) == a.symbol = entry.symbol
            old == FindIndex(arr, SameSymbol)
        IN  IF old # 0 /\ arr[old].updated > data.timestamp
            THEN arr[old]
            ELSE [id        |-> entry.id,
                  symbol    |-> entry.symbol,
                  price     |-> BigNumber(entry.priceUsd),
                  updated   |-> Min(t, data.timestamp),
                  subscribe |-> old # 0 /\ arr[old].subscribe]]

\* Variant of SubscribedIds that keeps only the last subscribed asset.
SubscribedIdsNewestOnly(arr) ==
    LET subscribed == { i \in 1..Len(arr) : arr[i].subscribe }
    IN  IF subscribed = {} THEN <<>>
        ELSE <<arr[CHOOSE i \in subscribed : \A j \in subscribed : j <= i].id>>

\* The asset ids resubscribe puts into the socket URL: filter, then map.
RECURSIVE SubscribedIds(_)
SubscribedIds(arr) ==
    IF arr = <<>> THEN <<>>
    ELSE (IF Head(arr).subscribe THEN <<Head(arr).id>> ELSE <<>>)
           \o SubscribedIds(Tail(arr))

\* Variant of isOutdated with an inclusive comparison.
isOutdatedInclusive(updated, t) == t >= updated + MAX_PRICE_AGE

isOutdated(updated, t) == t > updated + MAX_PRICE_AGE

(***************************************************************************)
(* Sockets.  A WebSocket is [readyState, listeners, assetIds]: listeners   *)
(* is TRUE while the handlers attached by resubscribe are still attached,  *)
(* assetIds is the list in the URL it was constructed with.                *)
(***************************************************************************)
NewSocket(ids) == [readyState |-> "CONNECTING", listeners |-> TRUE, assetIds |-> ids]

\* socket.close(): a socket that is not closed yet starts closing.
close(ws) == [ws EXCEPT !.readyState = IF @ = "CLOSED" THEN @ ELSE "CLOSING"]

\* Variant of removeAllListeners that detaches nothing.
removeAllListenersKeepsThem(ws) == ws

removeAllListeners(ws) == [ws EXCEPT !.listeners = FALSE]

\* Variant of resubscribe without the early return on an empty id list.
resubscribeAlwaysOpens(arr, sk, sks) ==
    LET torn == IF sk # 0
                THEN [sks EXCEPT ![sk] = removeAllListeners(close(@))]
                ELSE sks
    IN  [socket |-> Len(torn) + 1, sockets |-> Append(torn, NewSocket(SubscribedIds(arr)))]

\* resubscribe: the new values of `socket` and of the sockets.
resubscribe(arr, sk, sks) ==
    LET torn == IF sk # 0
                THEN [sks EXCEPT ![sk] = removeAllListeners(close(@))]
                ELSE sks
        assetIds == SubscribedIds(arr)
    IN  IF Len(assetIds) = 0
        THEN [socket |-> sk, sockets |-> torn]
        ELSE [socket |-> Len(torn) + 1, sockets |-> Append(torn, NewSocket(assetIds))]

\* Bound of the model: resubscribe may construct a socket only below MaxSockets.
CanResubscribe(arr) == Len(SubscribedIds(arr)) = 0 \/ Len(sockets) < MaxSockets

Last(op, arg, out, ret, resubs) ==
    [op |-> op, arg |-> arg, out |-> out, ret |-> ret, resubs |-> resubs]

(***************************************************************************)
(* Initial state: connectCoinCap has returned.  The interval is set and    *)
(* the first fetchAssets has either merged a snapshot or failed.           *)
(***************************************************************************)
Init ==
    /\ now = StartNow
    /\ \/ assets = <<>>
       \/ \E d \in SnapshotData, skew \in SkewSet :
            assets = updateAssets(<<>>, [data |-> d, timestamp |-> StartNow + skew],
                                  StartNow)
    /\ socket = 0
    /\ sockets = <<>>
    /\ timers = <<>>
    /\ refresh = TRUE
    /\ nextPoll = StartNow + POLLING_REFRESH_INTERVAL
    /\ fetching = 0
    /\ disconnected = FALSE
    /\ last = Last("connect", "", "ok", NoPrice, 0)

(***************************************************************************)
(* The clock and the polling refresher                                     *)
(***************************************************************************)
Tick(d) ==
    /\ now + d <= MaxNow
    /\ now' = now + d
    /\ last' = Last("tick", "", "ok", NoPrice, 0)
    /\ UNCHANGED <<assets, socket, sockets, timers, refresh, nextPoll, fetching,
                   disconnected>>

\* The interval fires: fetchAssets issues the GET.
PollTick ==
    /\ refresh
    /\ now >= nextPoll
    /\ fetching < MaxFetch
    /\ fetching' = fetching + 1
    /\ nextPoll' = nextPoll + POLLING_REFRESH_INTERVAL
    /\ last' = Last("poll", "", "ok", NoPrice, 0)
    /\ UNCHANGED <<assets, socket, sockets, timers, refresh, now, disconnected>>

\* fetchAssets, then-branch: the response is merged into the registry.
FetchResolve(d, skew) ==
    /\ fetching > 0
    /\ fetching' = fetching - 1
    /\ assets' = updateAssets(assets, [data |-> d, timestamp |-> now + skew], now)
    /\ last' = Last("fetch", [data |-> d, timestamp |-> now + skew], "ok", NoPrice, 0)
    /\ UNCHANGED <<socket, sockets, timers, refresh, nextPoll, now, disconnected>>

\* fetchAssets, catch-branch: the failure is swallowed.
FetchFail ==
    /\ fetching > 0
    /\ fetching' = fetching - 1
    /\ last' = Last("fetch", "", "failed", NoPrice, 0)
    /\ UNCHANGED <<assets, socket, sockets, timers, refresh, nextPoll, now,
                   disconnected>>

(***************************************************************************)
(* The public interface                                                    *)
(***************************************************************************)
\* Variant of isUSD that compares with the lower-case code.
isUSDLowerCase(symbol) == symbol = "usd"

isUSD(symbol) == symbol = "USD"

getPrice(symbol) ==
    IF isUSD(symbol)
    THEN /\ last' = Last("getPrice", symbol, "ok", BigNumber("1"), 0)
         /\ UNCHANGED <<assets, socket, sockets>>
    ELSE LET asset == getAsset(assets, symbol)
         IN  IF asset = 0
             THEN /\ last' = Last("getPrice", symbol, "unknown", NoPrice, 0)
                  /\ UNCHANGED <<assets, socket, sockets>>
             ELSE IF isOutdated(assets[asset].updated, now)
             THEN /\ last' = Last("getPrice", symbol, "stale", NoPrice, 0)
                  /\ UNCHANGED <<assets, socket, sockets>>
             ELSE IF ~assets[asset].subscribe
             THEN LET subscribed == subscribeTo(assets, symbol)
                      re == resubscribe(subscribed, socket, sockets)
                  IN  /\ CanResubscribe(subscribed)
                      /\ assets' = subscribed
                      /\ socket' = re.socket
                      /\ sockets' = re.sockets
                      /\ last' = Last("getPrice", symbol, "ok", assets[asset].price, 1)
             ELSE /\ last' = Last("getPrice", symbol, "ok", assets[asset].price, 0)
                  /\ UNCHANGED <<assets, socket, sockets>>

GetPrice(symbol) ==
    /\ getPrice(symbol)
    /\ UNCHANGED <<timers, refresh, nextPoll, fetching, now, disconnected>>

disconnect ==
    /\ sockets' = IF socket # 0
                  THEN [sockets EXCEPT ![socket] = close(removeAllListeners(@))]
                  ELSE sockets
    /\ refresh' = FALSE

Disconnect ==
    /\ disconnect
    /\ disconnected' = TRUE
    /\ last' = Last("disconnect", "", "ok", NoPrice, 0)
    /\ UNCHANGED <<assets, socket, timers, nextPoll, fetching, now>>

(***************************************************************************)
(* Socket events and the reconnect timer                                   *)
(***************************************************************************)
\* The handshake succeeds; resubscribe attaches no 'open' listener.
SocketOpen(i) ==
    /\ sockets[i].readyState = "CONNECTING"
    /\ sockets' = [sockets EXCEPT ![i].readyState = "OPEN"]
    /\ last' = Last("open", "", "ok", NoPrice, 0)
    /\ UNCHANGED <<assets, socket, timers, refresh, nextPoll, fetching, now,
                   disconnected>>

\* socket.on('close' | 'error', () => setTimeout(resubscribe, 5000))
onFailure == timers' = Append(timers, now + RECONNECT_DELAY)

SocketError(i) ==
    /\ sockets[i].readyState \in {"CONNECTING", "OPEN"}
    /\ sockets' = [sockets EXCEPT ![i].readyState = "CLOSING"]
    /\ IF sockets[i].listeners
       THEN /\ Len(timers) < MaxTimers
            /\ onFailure
            /\ last' = Last("error", "", "scheduled", NoPrice, 0)
       ELSE /\ UNCHANGED timers
            /\ last' = Last("error", "", "detached", NoPrice, 0)
    /\ UNCHANGED <<assets, socket, refresh, nextPoll, fetching, now, disconnected>>

SocketClose(i) ==
    /\ sockets[i].readyState # "CLOSED"
    /\ sockets' = [sockets EXCEPT ![i].readyState = "CLOSED"]
    /\ IF sockets[i].listeners
       THEN /\ Len(timers) < MaxTimers
            /\ onFailure
            /\ last' = Last("close", "", "scheduled", NoPrice, 0)
       ELSE /\ UNCHANGED timers
            /\ last' = Last("close", "", "detached", NoPrice, 0)
    /\ UNCHANGED <<assets, socket, refresh, nextPoll, fetching, now, disconnected>>

\* socket.on('message', ...): parse, validate, merge.
onMessage(message) ==
    LET data == parseJson(message)
        valid == isValidPriceResponse(data, assets)
    IN  IF valid = "true"
        THEN /\ assets' = updatePrices(assets, data, now)
             /\ last' = Last("message", data, "merged", NoPrice, 0)
        ELSE /\ UNCHANGED assets
             /\ last' = Last("message", "", IF valid = "false" THEN "Error" ELSE valid,
                             NoPrice, 0)

SocketMessage(i, message) ==
    /\ sockets[i].readyState = "OPEN"
    /\ IF sockets[i].listeners
       THEN onMessage(message)
       ELSE /\ UNCHANGED assets
            /\ last' = Last("message", "", "detached", NoPrice, 0)
    /\ UNCHANGED <<socket, sockets, timers, refresh, nextPoll, fetching, now,
                   disconnected>>

\* A setTimeout(resubscribe, 5000) comes due and runs resubscribe.
ReconnectTimer ==
    /\ timers # <<>>
    /\ Head(timers) <= now
    /\ CanResubscribe(assets)
    /\ LET re == resubscribe(assets, socket, sockets)
       IN  /\ socket' = re.socket
           /\ sockets' = re.sockets
    /\ timers' = Tail(timers)
    /\ last' = Last("timer", "", "ok", NoPrice, 1)
    /\ UNCHANGED <<assets, refresh, nextPoll, fetching, now, disconnected>>

\* isValidPriceResponse applied to a decoded payload and the current registry.
Validate(o) ==
    /\ last' = Last("isValidPriceResponse", o, isValidPriceResponse(o, assets), NoPrice, 0)
    /\ UNCHANGED <<assets, socket, sockets, timers, refresh, nextPoll, fetching, now,
                   disconnected>>

Next ==
    \/ \E d \in TickSteps : Tick(d)
    \/ PollTick
    \/ \E d \in SnapshotData, skew \in SkewSet : FetchResolve(d, skew)
    \/ FetchFail
    \/ \E symbol \in QuerySymbols : GetPrice(symbol)
    \/ Disconnect
    \/ \E i \in 1..Len(sockets) : SocketOpen(i)
    \/ \E i \in 1..Len(sockets) : SocketError(i)
    \/ \E i \in 1..Len(sockets) : SocketClose(i)
    \/ \E i \in 1..Len(sockets), message \in Messages : SocketMessage(i, message)
    \/ ReconnectTimer

Spec == Init /\ [][Next]_vars

\* The registry and its feeds while the client is connected: the clock, the
\* REST refresh, getPrice and the push messages of sockets that do not fail.
NextRegistry ==
    \/ \E d \in TickSteps : Tick(d)
    \/ PollTick
    \/ \E d \in SnapshotData, skew \in SkewSet : FetchResolve(d, skew)
    \/ FetchFail
    \/ \E symbol \in QuerySymbols : GetPrice(symbol)
    \/ \E i \in 1..Len(sockets) : SocketOpen(i)
    \/ \E i \in 1..Len(sockets), message \in Messages : SocketMessage(i, message)

SpecRegistry == Init /\ [][NextRegistry]_vars

\* The socket lifecycle and the shutdown: getPrice, socket failures, the
\* reconnect timer and disconnect, with no REST refresh after the first one
\* and no push message.
NextSocket ==
    \/ \E d \in TickSteps : Tick(d)
    \/ \E symbol \in QuerySymbols : GetPrice(symbol)
    \/ Disconnect
    \/ \E i \in 1..Len(sockets) : SocketOpen(i)
    \/ \E i \in 1..Len(sockets) : SocketError(i)
    \/ \E i \in 1..Len(sockets) : SocketClose(i)
    \/ ReconnectTimer

SpecSocket == Init /\ [][NextSocket]_vars

\* The socket session: the socket lifecycle of SpecSocket together with the
\* push messages that price bitcoin alone (one valid, one invalid), with
\* getPrice called by symbol and no REST refresh after the first one.
SessionMessages == { m \in JsonObjects : DOMAIN m.entries = {"bitcoin"} }
SessionSymbols == {"BTC", "ETH"}

NextSession ==
    \/ \E d \in TickSteps : Tick(d)
    \/ \E symbol \in SessionSymbols : GetPrice(symbol)
    \/ Disconnect
    \/ \E i \in 1..Len(sockets) : SocketOpen(i)
    \/ \E i \in 1..Len(sockets) : SocketError(i)
    \/ \E i \in 1..Len(sockets) : SocketClose(i)
    \/ \E i \in 1..Len(sockets), message \in SessionMessages : SocketMessage(i, message)
    \/ ReconnectTimer

SpecSession == Init /\ [][NextSession]_vars

\* Reconnecting under a changing registry: socket failures and the reconnect
\* timer together with the REST refresh, whose snapshots list at most one
\* asset and carry the local time; no push message and no disconnect.
ReconnectSnapshots == { d \in SnapshotData : Len(d) <= 1 }
ReconnectSymbols == {"BTC", "ETH", "bitcoin"}

NextReconnect ==
    \/ \E d \in TickSteps : Tick(d)
    \/ PollTick
    \/ \E d \in ReconnectSnapshots : FetchResolve(d, 0)
    \/ FetchFail
    \/ \E symbol \in ReconnectSymbols : GetPrice(symbol)
    \/ \E i \in 1..Len(sockets) : SocketError(i)
    \/ \E i \in 1..Len(sockets) : SocketClose(i)
    \/ ReconnectTimer

SpecReconnect == Init /\ [][NextReconnect]_vars

\* The REST refresh around the shutdown: the clock, the polling refresher,
\* getPrice and disconnect, with sockets that raise no event.
NextShutdown ==
    \/ \E d \in TickSteps : Tick(d)
    \/ PollTick
    \/ \E d \in SnapshotData, skew \in SkewSet : FetchResolve(d, skew)
    \/ FetchFail
    \/ \E symbol \in QuerySymbols : GetPrice(symbol)
    \/ Disconnect

SpecShutdown == Init /\ [][NextShutdown]_vars

\* The validator alone: it is applied to every decoded payload, with the
\* registry left by the first fetchAssets.
NextValidator == \E o \in DecodedPayloads : Validate(o)

SpecValidator == Init /\ [][NextValidator]_vars

(***************************************************************************)
(* Properties                                                              *)
(***************************************************************************)
Symbols == { l[2] : l \in Listings }

HasSymbol(arr, symbol) == \E i \in 1..Len(arr) : arr[i].symbol = symbol

\* The asset a symbol denotes: the first entry with that symbol.
BySymbol(arr, symbol) ==
    arr[CHOOSE i \in 1..Len(arr) :
          arr[i].symbol = symbol /\ \A j \in 1..(i - 1) : arr[j].symbol # symbol]

\* x is the id or the symbol of some entry; Lookup is the first such entry.
Known(arr, x) == \E i \in 1..Len(arr) : arr[i].id = x \/ arr[i].symbol = x

Lookup(arr, x) ==
    arr[CHOOSE i \in 1..Len(arr) :
          /\ (arr[i].id = x \/ arr[i].symbol = x)
          /\ \A j \in 1..(i - 1) : arr[j].id # x /\ arr[j].symbol # x]

IsSubscribed(arr, symbol) ==
    \E i \in 1..Len(arr) : arr[i].symbol = symbol /\ arr[i].subscribe

SubscribedStaysSubscribed ==
    [][~disconnected'
         => \A symbol \in Symbols :
              IsSubscribed(assets, symbol) => IsSubscribed(assets', symbol)]_vars

\* C3: after getPrice of a known non-USD asset, the call has failed as stale
\* exactly when now - updated > MAX_PRICE_AGE, and has otherwise returned the
\* asset's registry price.
StaleExactlyWhenOlderThanMaxAge ==
    (last.op = "getPrice" /\ last.arg # "USD" /\ Known(assets, last.arg))
      => LET asset == Lookup(assets, last.arg)
         IN  /\ (last.out = "stale") <=> (now - asset.updated > 30000)
             /\ (last.out # "stale") => (last.out = "ok" /\ last.ret = asset.price)

\* C3 witness: a price updated exactly 30 s ago has been returned.
PriceAtMaxAgeReturned ==
    /\ last.op = "getPrice"
    /\ last.arg # "USD"
    /\ last.out = "ok"
    /\ Known(assets, last.arg)
    /\ now - Lookup(assets, last.arg).updated = 30000
    /\ last.ret = Lookup(assets, last.arg).price

\* A price updated 31 s ago has been refused as stale.
PriceOlderThanMaxAgeRefused ==
    /\ last.op = "getPrice"
    /\ last.out = "stale"
    /\ Known(assets, last.arg)
    /\ now - Lookup(assets, last.arg).updated = 31000

\* C4 (as claimed): every getPrice(symbol) for a symbol that is in the registry
\* with subscribe = false calls resubscribe exactly once, with the symbol's asset
\* subscribed, however old the price is.
GetPriceOfUnsubscribedResubscribes ==
    [][\A symbol \in Symbols :
         (/\ last'.op = "getPrice"
          /\ last'.arg = symbol
          /\ HasSymbol(assets, symbol)
          /\ ~IsSubscribed(assets, symbol))
           => (last'.resubs = 1 /\ IsSubscribed(assets', symbol))]_vars

\* Everything but the history variable `last`.
program == <<assets, socket, sockets, timers, refresh, nextPoll, fetching, now,
             disconnected>>

\* C5: getPrice('USD') returns 1 and changes nothing: not the registry, not a
\* subscribe flag, not the socket, not a timer; it calls resubscribe never.
UsdIsOneWithoutSideEffects ==
    [][(last'.op = "getPrice" /\ last'.arg = "USD")
         => /\ last'.out = "ok"
            /\ last'.ret = [s |-> 1, c |-> <<1>>]
            /\ last'.resubs = 0
            /\ UNCHANGED program]_vars

\* C5 witness: getPrice('USD') has returned 1 after disconnect(), with a stale
\* asset in the registry and a reconnect timer pending.
UsdReturnedAfterDisconnect ==
    /\ last.op = "getPrice"
    /\ last.arg = "USD"
    /\ last.ret = [s |-> 1, c |-> <<1>>]
    /\ disconnected
    /\ timers # <<>>
    /\ \E i \in 1..Len(assets) : now - assets[i].updated > 30000

\* C6: getPrice(x) for a non-USD x that is neither the id nor the symbol of a
\* registry entry fails as unknown and changes nothing.
UnknownAssetFailsWithoutSideEffects ==
    [][(last'.op = "getPrice" /\ last'.arg # "USD" /\ ~Known(assets, last'.arg))
         => /\ last'.out = "unknown"
            /\ last'.resubs = 0
            /\ UNCHANGED program]_vars

\* C6 witness: getPrice of an unknown symbol has failed while the registry is
\* not empty and a socket is connecting or open.
UnknownAssetRefused ==
    /\ last.op = "getPrice"
    /\ last.out = "unknown"
    /\ ~Known(assets, last.arg)
    /\ assets # <<>>
    /\ socket # 0
    /\ sockets[socket].readyState \in {"CONNECTING", "OPEN"}

\* C7: when a push message is merged, every asset whose id is a key of the
\* message gets the message's value as price and the current time as updated;
\* every other asset, and every id, symbol and subscribe flag, is unchanged, no
\* asset is added or removed, and nothing outside the registry changes.
PricedValue(rate) ==
    IF rate.s = "51000" THEN [s |-> 1, c |-> <<51000>>] ELSE [s |-> 0, c |-> <<>>]

PushMergeUpdatesOnlyPricedAssets ==
    [][(last'.op = "message" /\ last'.out = "merged")
         => LET pushed == last'.arg.entries
            IN  /\ Len(assets') = Len(assets)
                /\ \A i \in 1..Len(assets) :
                     IF assets[i].id \in DOMAIN pushed
                     THEN assets'[i] = [id        |-> assets[i].id,
                                        symbol    |-> assets[i].symbol,
                                        price     |-> PricedValue(pushed[assets[i].id]),
                                        updated   |-> now,
                                        subscribe |-> assets[i].subscribe]
                     ELSE assets'[i] = assets[i]
                /\ UNCHANGED <<socket, sockets, timers, refresh, nextPoll, fetching,
                               now, disconnected>>]_vars

\* C7 witness: a push for one of two assets has been merged; the other asset
\* keeps its REST price and an older timestamp.
PushMergedForOneOfTwo ==
    /\ last.op = "message"
    /\ last.out = "merged"
    /\ Len(assets) = 2
    /\ \E i, j \in 1..2 :
         /\ assets[i].id \in DOMAIN last.arg.entries
         /\ assets[i].price = [s |-> 1, c |-> <<51000>>]
         /\ assets[i].updated = now
         /\ assets[j].id \notin DOMAIN last.arg.entries
         /\ assets[j].price = [s |-> 1, c |-> <<50000>>]
         /\ assets[j].updated < now

\* A well-formed push payload: a mapping whose keys are known asset ids and
\* whose values are valid price strings.
WellFormedPush(data, arr) ==
    /\ data.type = "object"
    /\ \A k \in DOMAIN data.entries :
         /\ \E i \in 1..Len(arr) : arr[i].id = k
         /\ data.entries[k] = [t |-> "string", s |-> "51000"]

\* C8 (as claimed): a delivered push message that is not well formed raises an
\* error (the handler throws before the merge), so a message that has been
\* merged without an error is a well-formed mapping.
InvalidPushRaisesAndIsNotMerged ==
    (last.op = "message" /\ last.out # "detached")
      => \/ last.out \in {"Error", "TypeError"}
         \/ last.out = "merged" /\ WellFormedPush(last.arg, assets)

\* C9: a close or error event delivered to the client schedules resubscribe
\* 5 s later; resubscribe runs no earlier than that, and the socket it
\* constructs is the new current socket, connecting, with the ids of all the
\* assets subscribed at that moment.
AllSubscribedIds(arr) == { arr[i].id : i \in { j \in 1..Len(arr) : arr[j].subscribe } }

ReconnectAfterDelayCarriesFullSet ==
    [][/\ (last'.op \in {"close", "error"} /\ last'.out = "scheduled")
            => timers' = Append(timers, now + 5000)
       /\ (last'.op = "timer")
            => /\ timers # <<>>
               /\ now >= Head(timers)
               /\ AllSubscribedIds(assets) # {}
                    => /\ socket' = Len(sockets) + 1
                       /\ Len(sockets') = Len(sockets) + 1
                       /\ sockets'[socket'].readyState = "CONNECTING"
                       /\ sockets'[socket'].listeners
                       /\ { sockets'[socket'].assetIds[k] :
                              k \in 1..Len(sockets'[socket'].assetIds) }
                            = AllSubscribedIds(assets)]_vars

\* C9 witness: the timer of a failed socket has fired before any disconnect and
\* the replacement socket carries two subscribed ids.
ReconnectedWithTwoIds ==
    /\ last.op = "timer"
    /\ ~disconnected
    /\ socket > 1
    /\ sockets[socket - 1].readyState = "CLOSED"
    /\ Len(sockets[socket].assetIds) = 2
    /\ sockets[socket].assetIds[1] # sockets[socket].assetIds[2]

\* C10 (as claimed): when disconnect() has returned, the polling interval is
\* cleared, no reconnect timer is pending and no socket is connecting or open.
NothingLeftAfterDisconnect ==
    (last.op = "disconnect")
      => /\ ~refresh
         /\ timers = <<>>
         /\ \A i \in 1..Len(sockets) : sockets[i].readyState \notin {"CONNECTING", "OPEN"}

\* A string that reads as a finite decimal greater than zero.
StrictlyPositiveDecimal(str) == str \in {"1", "50000", "51000"}

\* The payloads the validator is claimed to accept: a mapping whose keys are
\* ids of registry assets and whose values are strings reading as a finite,
\* strictly positive decimal.
ClaimedValid(o, arr) ==
    /\ o.type = "object"
    /\ \A k \in DOMAIN o.entries :
         /\ \E i \in 1..Len(arr) : arr[i].id = k
         /\ o.entries[k].t = "string"
         /\ StrictlyPositiveDecimal(o.entries[k].s)

\* C11 (as claimed): isValidPriceResponse never raises, and it returns true
\* only for a mapping whose keys are all ids of registry assets and whose
\* values are all strings reading as a finite, strictly positive decimal; for
\* every other decoded payload it returns false.
ValidatorAcceptsOnlyPositivePricesOfKnownIds ==
    (last.op = "isValidPriceResponse")
      => /\ last.out \in {"true", "false"}
         /\ (last.out = "true") => ClaimedValid(last.arg, assets)

\* C12 (as claimed): while disconnect() has not been called, a REST refresh or
\* a push message deletes no entry: every symbol in the registry before the
\* update is in the registry after it.
NoEntryDeletedWhileConnected ==
    [][(~disconnected' /\ last'.op \in {"fetch", "message"})
         => \A symbol \in Symbols :
              HasSymbol(assets, symbol) => HasSymbol(assets', symbol)]_vars

\* C13 (as claimed): a REST response that arrives after disconnect() has
\* returned leaves the registry as it is.
FetchAfterDisconnectLeavesRegistry ==
    [][(disconnected /\ last'.op = "fetch") => assets' = assets]_vars

\* C14 (as claimed): a handler that runs resubscribe while the current socket
\* is still connecting leaves that socket connecting: it is not closed before
\* its handshake has succeeded or failed.
ReconnectWaitsForHandshake ==
    [][(last'.resubs = 1 /\ socket # 0 /\ sockets[socket].readyState = "CONNECTING")
         => sockets'[socket].readyState = "CONNECTING"]_vars

\* C15: after every step only the most recently created socket, and only
\* while it is the current one, has listeners attached; a close or error event
\* of any other socket, or of a socket whose listeners were removed, schedules
\* no reconnect and leaves the registry alone; and a message changes the
\* registry only when it is delivered while the current socket is the newest
\* one, open and listening.
StaleSocketsAreSilent ==
    [][/\ \A i \in 1..Len(sockets') :
            sockets'[i].listeners => (i = Len(sockets') /\ i = socket')
       /\ (last'.op \in {"close", "error"})
            => \A i \in 1..Len(sockets) :
                 (/\ sockets'[i].readyState # sockets[i].readyState
                  /\ (i # Len(sockets) \/ ~sockets[i].listeners))
                   => (timers' = timers /\ assets' = assets)
       /\ (last'.op = "message" /\ assets' # assets)
            => /\ socket = Len(sockets)
               /\ sockets[socket].listeners
               /\ sockets[socket].readyState = "OPEN"]_vars

\* C15 witness: the socket replaced by a resubscribe has emitted its close
\* event after the replacement was created; no reconnect is scheduled and the
\* replacement is the only socket with listeners.
ReplacedSocketClosedSilently ==
    /\ last.op = "close"
    /\ last.out = "detached"
    /\ Len(sockets) = 2
    /\ socket = 2
    /\ sockets[1].readyState = "CLOSED"
    /\ ~sockets[1].listeners
    /\ sockets[2].listeners
    /\ timers = <<>>

\* The decimal a REST price string reads as.
RestPriceValue(str) ==
    IF str = "50000" THEN [s |-> 1, c |-> <<50000>>] ELSE [s |-> 0, c |-> <<>>]

SymbolsAreUnique ==
    \A i, j \in 1..Len(assets) : i # j => assets[i].symbol # assets[j].symbol

\* C19: every asset's `updated` is at most the local clock, and a price that
\* getPrice has returned is at most 30 s older than the local clock.
UpdatedNotAfterNow ==
    /\ \A i \in 1..Len(assets) : assets[i].updated <= now
    /\ (last.op = "getPrice" /\ last.arg # "USD" /\ last.out = "ok")
         => now - Lookup(assets, last.arg).updated \in 0..30000

\* C19 witness: a snapshot whose provider timestamp is in the future has been
\* merged and its entries are stamped with the local time of receipt.
FutureSnapshotStampedWithLocalTime ==
    /\ last.op = "fetch"
    /\ last.out = "ok"
    /\ last.arg.timestamp > now
    /\ assets # <<>>
    /\ \A i \in 1..Len(assets) : assets[i].updated = now

\* C17: a step that runs resubscribe while no asset is subscribed constructs no
\* socket and schedules no reconnect; every socket was constructed with at
\* least one asset id, in a step that left some asset subscribed; and the
\* first socket is constructed by a getPrice that returned a price and set a
\* subscribe flag.
NoSocketWithoutSubscription ==
    [][/\ (last'.resubs = 1 /\ AllSubscribedIds(assets') = {})
            => (Len(sockets') = Len(sockets) /\ Len(timers') <= Len(timers))
       /\ \A i \in 1..Len(sockets') : sockets'[i].assetIds # <<>>
       /\ (Len(sockets') > Len(sockets)) => AllSubscribedIds(assets') # {}
       /\ (sockets = <<>> /\ sockets' # <<>>)
            => /\ last'.op = "getPrice"
               /\ last'.out = "ok"
               /\ assets' # assets]_vars

\* C17 witness: the reconnect timer of a failed socket has fired after a REST
\* refresh left no asset subscribed; the failed socket is torn down, and there
\* is no other socket and no timer.
TimerFiredWithNothingSubscribed ==
    /\ last.op = "timer"
    /\ last.resubs = 1
    /\ assets # <<>>
    /\ AllSubscribedIds(assets) = {}
    /\ Len(sockets) = 1
    /\ ~sockets[1].listeners
    /\ sockets[1].readyState \in {"CLOSING", "CLOSED"}
    /\ timers = <<>>

\* C20 (as claimed): the close event of a socket whose error event has already
\* scheduled a reconnect (the socket is closing with its listeners attached)
\* schedules no second one.
OneFailureOneReconnect ==
    [][\A i \in 1..Len(sockets) :
         (/\ last'.op = "close"
          /\ sockets[i].listeners
          /\ sockets[i].readyState = "CLOSING"
          /\ sockets'[i].readyState = "CLOSED")
           => timers' = timers]_vars


\* C21 (as claimed): after a getPrice(x) that returned the price of a registry
\* asset, x being the asset's symbol or its id, that asset has subscribe = TRUE.
ReturnedPriceMeansSubscribed ==
    (last.op = "getPrice" /\ last.arg # "USD" /\ last.out = "ok")
      => Lookup(assets, last.arg).subscribe

====
